---- MODULE Spec2Model ----
(***************************************************************************)
(* Identity reconciliation service: the contacts table, the Contact model  *)
(* (findByEmailOrPhone, findLinkedContacts, create, updateLinkPrecedence)  *)
(* and IdentityService.identifyContact with its helpers                    *)
(* (createNewPrimaryContact, mergePrimaryContacts,                         *)
(* isRequestCoveredByContacts, needsNewSecondaryContact, buildResponse).   *)
(*                                                                         *)
(* Emails and phone numbers are opaque strings in the program, compared   *)
(* only for equality; they are numbered here.  A field missing from the    *)
(* request body is `undefined` (UNDEF); a column without a value is SQL    *)
(* NULL (NULL), which is also the JavaScript null the driver returns.      *)
(* deleted_at is never written by the service, so every row is live and    *)
(* the `deleted_at IS NULL` filter of each query is always true.           *)
(***************************************************************************)
EXTENDS Integers, Sequences, FiniteSets, TLC

\* ---------------------------------------------------------------- bounds
\* Rows the table may hold: a call that would insert one more is not taken.
MaxContacts == 4

\* ------------------------------------------------------------ data model
NULL == 0
UNDEF == -1

PRIMARY == "primary"
SECONDARY == "secondary"

\* The email addresses and the phone numbers requests are drawn from.
Emails == {1, 2}
Phones == {1, 2}

\* IdentifyRequestBody: each field is a non-empty string or absent.
Requests == [email : Emails \cup {UNDEF}, phoneNumber : Phones \cup {UNDEF}]

\* JavaScript truthiness of an optional string, over the values modelled.
Truthy(v) == v /= UNDEF /\ v /= NULL

\* node-postgres sends an undefined parameter as NULL.
ToColumn(v) == IF v = UNDEF THEN NULL ELSE v

Range(s) == {s[i] : i \in 1..Len(s)}

NoResponse == [primaryContactId |-> NULL, emails |-> <<>>,
               phoneNumbers |-> <<>>, secondaryContactIds |-> <<>>]

VARIABLES
    contacts,   \* the contacts table: contacts[i] is the row with id = i
    now,        \* the last timestamp CURRENT_TIMESTAMP handed to a write
    request,    \* the body of the last identify request
    outcome,    \* how the last identify call ended
    response,   \* the consolidated view the last call returned
    ops,        \* the store operations the last call issued, in order
    prev,       \* the contacts table as it was when the last call began
    fault,      \* which store operation of the last call failed (0: none)
    retried,    \* the last call repeated the request of a call that had
                \* failed in the demotion loop after demoting a contact
    calls       \* the calls in flight: where each is and what it has read

\* request, outcome, response, ops, prev and fault describe the last call
\* that ran from start to finish with no other call in between.
vars == <<contacts, now, request, outcome, response, ops, prev, fault, retried, calls>>

\* --------------------------------------------------------- Contact model

\* Rows of a set, in the order `ORDER BY created_at ASC` gives them.  SQL
\* leaves the order of rows with equal created_at open; tb picks it.
RECURSIVE OrderByCreatedAt(_, _)
OrderByCreatedAt(rows, tb) ==
    IF rows = {} THEN <<>>
    ELSE LET first == CHOOSE r \in rows : \A o \in rows :
                         \/ r.createdAt < o.createdAt
                         \/ /\ r.createdAt = o.createdAt
                            /\ IF tb = "asc" THEN r.id <= o.id ELSE r.id >= o.id
         IN <<first>> \o OrderByCreatedAt(rows \ {first}, tb)

\* A faulty variant of FindByEmailOrPhone: rows are matched by email alone.
FindByEmailOnly(cs, email, phoneNumber, tb) ==
    IF ~Truthy(email) /\ ~Truthy(phoneNumber) THEN <<>>
    ELSE OrderByCreatedAt(
           {cs[i] : i \in {j \in 1..Len(cs) : Truthy(email) /\ cs[j].email = email}},
           tb)

FindByEmailOrPhone(cs, email, phoneNumber, tb) ==
    IF ~Truthy(email) /\ ~Truthy(phoneNumber) THEN <<>>
    ELSE OrderByCreatedAt(
           {cs[i] : i \in {j \in 1..Len(cs) :
                \/ Truthy(email) /\ cs[j].email = email
                \/ Truthy(phoneNumber) /\ cs[j].phoneNumber = phoneNumber}},
           tb)

\* A faulty variant of FindLinkedContacts: only the row of the given id is
\* returned, not the rows linked to it.
FindContactById(cs, primaryId, tb) ==
    OrderByCreatedAt({cs[i] : i \in {j \in 1..Len(cs) : cs[j].id = primaryId}}, tb)

\* A faulty variant of FindLinkedContacts: the rows linked to a row that is
\* linked to the given id are returned too.
FindLinkedContactsTwoLevels(cs, primaryId, tb) ==
    OrderByCreatedAt(
        {cs[i] : i \in {j \in 1..Len(cs) :
             \/ cs[j].id = primaryId
             \/ cs[j].linkedId = primaryId
             \/ /\ cs[j].linkedId /= NULL
                /\ cs[cs[j].linkedId].linkedId = primaryId}},
        tb)

FindLinkedContacts(cs, primaryId, tb) ==
    OrderByCreatedAt(
        {cs[i] : i \in {j \in 1..Len(cs) :
             cs[j].id = primaryId \/ cs[j].linkedId = primaryId}},
        tb)

\* INSERT ... RETURNING: id from the SERIAL column, both timestamps default
\* to CURRENT_TIMESTAMP.
NewRow(cs, email, phoneNumber, linkedId, linkPrecedence, t) ==
    [id |-> Len(cs) + 1,
     email |-> ToColumn(email),
     phoneNumber |-> ToColumn(phoneNumber),
     linkedId |-> linkedId,
     linkPrecedence |-> linkPrecedence,
     createdAt |-> t,
     updatedAt |-> t]

\* A faulty variant of Create: the INSERT is issued twice.
CreateTwice(cs, email, phoneNumber, linkedId, linkPrecedence, t) ==
    Append(Append(cs, NewRow(cs, email, phoneNumber, linkedId, linkPrecedence, t)),
           NewRow(Append(cs, NewRow(cs, email, phoneNumber, linkedId, linkPrecedence, t)),
                  email, phoneNumber, linkedId, linkPrecedence, t))

Create(cs, email, phoneNumber, linkedId, linkPrecedence, t) ==
    Append(cs, NewRow(cs, email, phoneNumber, linkedId, linkPrecedence, t))

\* A faulty variant of UpdateLinkPrecedence: the UPDATE sets linked_id and leaves
\* link_precedence as it was.
UpdateLinkedIdOnly(cs, id, linkedId, t) ==
    [cs EXCEPT ![id] = [@ EXCEPT !.linkedId = linkedId, !.updatedAt = t]]

UpdateLinkPrecedence(cs, id, linkedId, t) ==
    [cs EXCEPT ![id] = [@ EXCEPT !.linkedId = linkedId,
                                 !.linkPrecedence = SECONDARY,
                                 !.updatedAt = t]]

\* ------------------------------------------------------- IdentityService

\* What one identifyContact call leaves behind: the table, how the call
\* ended, the view it returned and the store operations it issued.
Result(cs, how, view, log) ==
    [contacts |-> cs, outcome |-> how, response |-> view, ops |-> log]

\* The store operation about to be issued is the failAt-th of the call and
\* the database rejects it (failAt = 0: no store failure in this call).
Fails(log, failAt) == failAt = Len(log) + 1

\* A faulty variant of StoreError: the rejected operation is issued once more
\* before the call gives up.
StoreErrorRetried(cs, log, op) ==
    Result(cs, "store_error", NoResponse, Append(Append(log, op), op))

StoreError(cs, log, op) == Result(cs, "store_error", NoResponse, Append(log, op))

\* A faulty variant of SetAdd: values are pushed on an array, with no membership test.
SetAddAlways(seq, v) == Append(seq, v)

\* A faulty variant of SetAdd: a new value goes to the front.
SetAddInFront(seq, v) == IF v \in Range(seq) THEN seq ELSE <<v>> \o seq

\* Set.add on an insertion-ordered Set, kept as the sequence Array.from gives.
SetAdd(seq, v) == IF v \in Range(seq) THEN seq ELSE Append(seq, v)

\* Array.indexOf, as a 1-based position.
IndexOf(seq, v) == CHOOSE i \in 1..Len(seq) : seq[i] = v /\ \A j \in 1..(i - 1) : seq[j] /= v

\* [a[0], a[i]] = [a[i], a[0]]
SwapToFront(seq, i) == [seq EXCEPT ![1] = seq[i], ![i] = seq[1]]

RECURSIVE FilterPrecedence(_, _)
FilterPrecedence(seq, p) ==
    IF seq = <<>> THEN <<>>
    ELSE (IF Head(seq).linkPrecedence = p THEN <<Head(seq)>> ELSE <<>>)
         \o FilterPrecedence(Tail(seq), p)

RECURSIVE CollectEmails(_, _)
CollectEmails(acc, seq) ==
    IF seq = <<>> THEN acc
    ELSE CollectEmails(IF Truthy(Head(seq).email) THEN SetAdd(acc, Head(seq).email) ELSE acc,
                       Tail(seq))

RECURSIVE CollectPhones(_, _)
CollectPhones(acc, seq) ==
    IF seq = <<>> THEN acc
    ELSE CollectPhones(IF Truthy(Head(seq).phoneNumber)
                       THEN SetAdd(acc, Head(seq).phoneNumber) ELSE acc,
                       Tail(seq))

\* A faulty variant of ViewOf: the first contact of the list is taken for the
\* primary, whatever its linkPrecedence.
ViewOfFirstContact(linkedContacts) ==
    IF linkedContacts = <<>> THEN NoResponse
    ELSE [primaryContactId |-> linkedContacts[1].id,
          emails |-> CollectEmails(<<>>, linkedContacts),
          phoneNumbers |-> CollectPhones(<<>>, linkedContacts),
          secondaryContactIds |->
              [i \in 1..(Len(linkedContacts) - 1) |-> linkedContacts[i + 1].id]]

\* The view buildResponse computes from the rows findLinkedContacts gave it.
\* Without a PRIMARY row among them `primary` is undefined and reading
\* primary.email throws a TypeError: the view is then NoResponse.
ViewOf(linkedContacts) ==
    LET primaries == FilterPrecedence(linkedContacts, PRIMARY)
        secondaries == FilterPrecedence(linkedContacts, SECONDARY)
    IN  IF primaries = <<>> THEN NoResponse
        ELSE LET primary == primaries[1]
                 emails == CollectEmails(
                     IF Truthy(primary.email) THEN <<primary.email>> ELSE <<>>,
                     secondaries)
                 phoneNumbers == CollectPhones(
                     IF Truthy(primary.phoneNumber) THEN <<primary.phoneNumber>> ELSE <<>>,
                     secondaries)
                 emailArray ==
                     IF Truthy(primary.email) /\ emails[1] /= primary.email
                     THEN SwapToFront(emails, IndexOf(emails, primary.email))
                     ELSE emails
                 phoneArray ==
                     IF Truthy(primary.phoneNumber) /\ phoneNumbers[1] /= primary.phoneNumber
                     THEN SwapToFront(phoneNumbers, IndexOf(phoneNumbers, primary.phoneNumber))
                     ELSE phoneNumbers
             IN [primaryContactId |-> primary.id,
                 emails |-> emailArray,
                 phoneNumbers |-> phoneArray,
                 secondaryContactIds |->
                     [i \in 1..Len(secondaries) |-> secondaries[i].id]]

BuildResponse(cs, primaryContactId, tb, log, failAt) ==
    IF Fails(log, failAt) THEN StoreError(cs, log, "findLinkedContacts")
    ELSE LET view == ViewOf(FindLinkedContacts(cs, primaryContactId, tb))
         IN Result(cs, IF view = NoResponse THEN "type_error" ELSE "ok", view,
                   Append(log, "findLinkedContacts"))

\* A faulty variant of NeedsNewSecondaryContact: a request with both fields is tested
\* field by field, as isRequestCoveredByContacts does, not as a pair.
NeedsNewSecondaryPerField(existingContacts, req) ==
    IF Truthy(req.email) /\ Truthy(req.phoneNumber)
    THEN ~(/\ \E c \in Range(existingContacts) : c.email = req.email
           /\ \E c \in Range(existingContacts) : c.phoneNumber = req.phoneNumber)
    ELSE IF Truthy(req.email)
    THEN ~\E c \in Range(existingContacts) : c.email = req.email
    ELSE ~\E c \in Range(existingContacts) : c.phoneNumber = req.phoneNumber

NeedsNewSecondaryContact(existingContacts, req) ==
    LET exactMatch == \E c \in Range(existingContacts) :
            c.email = req.email /\ c.phoneNumber = req.phoneNumber
        emailExists == IF Truthy(req.email)
                       THEN \E c \in Range(existingContacts) : c.email = req.email
                       ELSE TRUE
        phoneExists == IF Truthy(req.phoneNumber)
                       THEN \E c \in Range(existingContacts) : c.phoneNumber = req.phoneNumber
                       ELSE TRUE
    IN  IF exactMatch THEN FALSE
        ELSE IF Truthy(req.email) /\ Truthy(req.phoneNumber) THEN ~exactMatch
        ELSE IF Truthy(req.email) /\ ~Truthy(req.phoneNumber) THEN ~emailExists
        ELSE IF Truthy(req.phoneNumber) /\ ~Truthy(req.email) THEN ~phoneExists
        ELSE FALSE

\* A faulty variant of IsRequestCoveredByContacts: the request counts as
\* covered only when a single contact carries every supplied field.
IsRequestCoveredByOneContact(cts, req) ==
    \E i \in 1..Len(cts) :
        /\ Truthy(req.email) => cts[i].email = req.email
        /\ Truthy(req.phoneNumber) => cts[i].phoneNumber = req.phoneNumber

IsRequestCoveredByContacts(cts, req) ==
    IF Truthy(req.email) /\ Truthy(req.phoneNumber)
    THEN /\ \E c \in Range(cts) : c.email = req.email
         /\ \E c \in Range(cts) : c.phoneNumber = req.phoneNumber
    ELSE IF Truthy(req.email) /\ ~Truthy(req.phoneNumber)
    THEN \E c \in Range(cts) : c.email = req.email
    ELSE IF Truthy(req.phoneNumber) /\ ~Truthy(req.email)
    THEN \E c \in Range(cts) : c.phoneNumber = req.phoneNumber
    ELSE FALSE

\* A faulty variant of CreateNewPrimaryContact: phoneNumbers is built from the email.
CreateNewPrimaryEmailTwice(cs, req, t, log, failAt) ==
    IF Fails(log, failAt) THEN StoreError(cs, log, "create")
    ELSE LET newContact == NewRow(cs, req.email, req.phoneNumber, NULL, PRIMARY, t)
         IN Result(Append(cs, newContact), "ok",
                   [primaryContactId |-> newContact.id,
                    emails |-> IF Truthy(newContact.email)
                               THEN <<newContact.email>> ELSE <<>>,
                    phoneNumbers |-> IF Truthy(newContact.email)
                                     THEN <<newContact.email>> ELSE <<>>,
                    secondaryContactIds |-> <<>>],
                   Append(log, "create"))

CreateNewPrimaryContact(cs, req, t, log, failAt) ==
    IF Fails(log, failAt) THEN StoreError(cs, log, "create")
    ELSE LET newContact == NewRow(cs, req.email, req.phoneNumber, NULL, PRIMARY, t)
         IN Result(Append(cs, newContact), "ok",
                   [primaryContactId |-> newContact.id,
                    emails |-> IF Truthy(newContact.email)
                               THEN <<newContact.email>> ELSE <<>>,
                    phoneNumbers |-> IF Truthy(newContact.phoneNumber)
                                     THEN <<newContact.phoneNumber>> ELSE <<>>,
                    secondaryContactIds |-> <<>>],
                   Append(log, "create"))

\* Array.prototype.sort with (a, b) => a.createdAt - b.createdAt: a stable
\* sort, so rows of equal createdAt keep the order they came in.
RECURSIVE InsertByCreatedAt(_, _)
InsertByCreatedAt(sorted, c) ==
    IF sorted = <<>> THEN <<c>>
    ELSE IF c.createdAt < Head(sorted).createdAt THEN <<c>> \o sorted
    ELSE <<Head(sorted)>> \o InsertByCreatedAt(Tail(sorted), c)

\* A faulty variant of SortByCreatedAt: the comparator is b.createdAt - a.createdAt.
RECURSIVE SortByCreatedAtDescending(_)
SortByCreatedAtDescending(seq) ==
    IF seq = <<>> THEN <<>>
    ELSE LET rest == SortByCreatedAtDescending(Tail(seq))
             later == {i \in 1..Len(rest) : rest[i].createdAt >= Head(seq).createdAt}
         IN SubSeq(rest, 1, Cardinality(later)) \o <<Head(seq)>>
            \o SubSeq(rest, Cardinality(later) + 1, Len(rest))

RECURSIVE SortByCreatedAt(_)
SortByCreatedAt(seq) ==
    IF seq = <<>> THEN <<>>
    ELSE InsertByCreatedAt(SortByCreatedAt(SubSeq(seq, 1, Len(seq) - 1)), seq[Len(seq)])

\* A faulty variant of DemoteEach: a rejected demotion is skipped and the loop
\* goes on with the contacts that follow.
RECURSIVE DemoteEachPastFailure(_, _, _, _, _, _)
DemoteEachPastFailure(cs, contactsToMerge, remainingId, t, log, failAt) ==
    IF contactsToMerge = <<>>
    THEN [contacts |-> cs, ops |-> log, failed |-> failAt \in 1..Len(log)]
    ELSE DemoteEachPastFailure(
             IF Fails(log, failAt) THEN cs
             ELSE UpdateLinkPrecedence(cs, Head(contactsToMerge).id, remainingId, t),
             Tail(contactsToMerge), remainingId, t,
             Append(log, "updateLinkPrecedence"), failAt)

\* The demotion loop of mergePrimaryContacts: one UPDATE per contact, in
\* order, each its own statement; a failing UPDATE ends the loop and the
\* earlier ones stay.
RECURSIVE DemoteEach(_, _, _, _, _, _)
DemoteEach(cs, contactsToMerge, remainingId, t, log, failAt) ==
    IF contactsToMerge = <<>> THEN [contacts |-> cs, ops |-> log, failed |-> FALSE]
    ELSE IF Fails(log, failAt)
    THEN [contacts |-> cs, ops |-> Append(log, "updateLinkPrecedence"), failed |-> TRUE]
    ELSE DemoteEach(UpdateLinkPrecedence(cs, Head(contactsToMerge).id, remainingId, t),
                    Tail(contactsToMerge), remainingId, t,
                    Append(log, "updateLinkPrecedence"), failAt)

MergePrimaryContacts(cs, primaryContacts, req, t, tb, log, failAt) ==
    LET sorted == SortByCreatedAt(primaryContacts)
        remainingPrimary == sorted[1]
        contactsToMerge == Tail(sorted)
        demoted == DemoteEach(cs, contactsToMerge, remainingPrimary.id, t, log, failAt)
    IN  IF demoted.failed
        THEN Result(demoted.contacts, "store_error", NoResponse, demoted.ops)
        ELSE IF ~IsRequestCoveredByContacts(sorted, req)
        THEN IF Fails(demoted.ops, failAt)
             THEN StoreError(demoted.contacts, demoted.ops, "create")
             ELSE BuildResponse(
                      Create(demoted.contacts, req.email, req.phoneNumber,
                             remainingPrimary.id, SECONDARY, t),
                      remainingPrimary.id, tb, Append(demoted.ops, "create"), failAt)
        ELSE BuildResponse(demoted.contacts, remainingPrimary.id, tb, demoted.ops, failAt)

\* Lines 45-66 of identifyContact: zero or one matched PRIMARY.
LinkToPrimary(cs, primaryContact, req, t, tb, log, failAt) ==
    IF Fails(log, failAt) THEN StoreError(cs, log, "findLinkedContacts")
    ELSE LET allLinkedContacts == FindLinkedContacts(cs, primaryContact.id, tb)
             log2 == Append(log, "findLinkedContacts")
         IN IF NeedsNewSecondaryContact(allLinkedContacts, req)
            THEN IF Fails(log2, failAt) THEN StoreError(cs, log2, "create")
                 ELSE BuildResponse(
                          Create(cs, req.email, req.phoneNumber,
                                 primaryContact.id, SECONDARY, t),
                          primaryContact.id, tb, Append(log2, "create"), failAt)
            ELSE BuildResponse(cs, primaryContact.id, tb, log2, failAt)

\* The try block of identifyContact (lines 23-66).
Reconcile(cs, req, t, tb, failAt) ==
    IF Fails(<<>>, failAt) THEN StoreError(cs, <<>>, "findByEmailOrPhone")
    ELSE LET existingContacts == FindByEmailOrPhone(cs, req.email, req.phoneNumber, tb)
             log == <<"findByEmailOrPhone">>
             primaryContacts == FilterPrecedence(existingContacts, PRIMARY)
         IN IF Len(existingContacts) = 0
            THEN CreateNewPrimaryContact(cs, req, t, log, failAt)
            ELSE IF Len(primaryContacts) > 1
            THEN MergePrimaryContacts(cs, primaryContacts, req, t, tb, log, failAt)
            ELSE IF primaryContacts /= <<>>
            THEN LinkToPrimary(cs, primaryContacts[1], req, t, tb, log, failAt)
            ELSE IF Fails(log, failAt) THEN StoreError(cs, log, "findLinkedContacts")
            ELSE LinkToPrimary(
                     cs,
                     FindLinkedContacts(cs, existingContacts[1].linkedId, tb)[1],
                     req, t, tb, Append(log, "findLinkedContacts"), failAt)

\* A faulty variant of IdentifyContact: the request is not validated.
IdentifyContactUnvalidated(cs, req, t, tb, failAt) == Reconcile(cs, req, t, tb, failAt)

IdentifyContact(cs, req, t, tb, failAt) ==
    IF ~Truthy(req.email) /\ ~Truthy(req.phoneNumber)
    THEN Result(cs, "validation_error", NoResponse, <<>>)
    ELSE Reconcile(cs, req, t, tb, failAt)

\* ------------------------------------------------------------ the system

\* The calls that may be in flight at the same time.
Callers == {1, 2}

\* A call that is not running: nothing read, nothing pending.
Resting ==
    [pc |-> "idle", req |-> [email |-> UNDEF, phoneNumber |-> UNDEF],
     anchor |-> NULL, todo |-> <<>>, covered |-> FALSE]

Init ==
    /\ contacts = <<>>
    /\ now = 0
    /\ request = [email |-> UNDEF, phoneNumber |-> UNDEF]
    /\ outcome = "none"
    /\ response = NoResponse
    /\ ops = <<>>
    /\ prev = <<>>
    /\ fault = 0
    /\ retried = FALSE
    /\ calls = [p \in Callers |-> Resting]

\* One POST /identify, start to finish.  dt is how far CURRENT_TIMESTAMP has
\* moved since the last write, tb the order the database gives rows of equal
\* created_at, failAt the store operation of this call that fails (0: none).
Identify(req, dt, tb, failAt) ==
    \E r \in {IdentifyContact(contacts, req, now + dt, tb, failAt)} :
        /\ Len(r.contacts) <= MaxContacts
        /\ failAt /= 0 => r.outcome = "store_error"
        /\ contacts' = r.contacts
        /\ now' = IF r.contacts /= contacts THEN now + dt ELSE now
        /\ request' = req
        /\ outcome' = r.outcome
        /\ response' = r.response
        /\ ops' = r.ops
        /\ prev' = contacts
        /\ fault' = failAt
        /\ retried' = (/\ fault /= 0
                       /\ ops[fault] = "updateLinkPrecedence"
                       /\ contacts /= prev
                       /\ req = request)
        /\ calls' = calls

\* Sequential calls, no store failure, the clock moving between writes.
Next == \E req \in Requests : Identify(req, 1, "asc", 0)

Spec == Init /\ [][Next]_vars

\* The orders the database may give rows of equal created_at.
TieBreaks == {"asc", "desc"}

\* The positions a failing store operation can have in one call: the lookup,
\* one demotion per other row at most, the insert, the final lookup.
FailPoints == 1..(MaxContacts + 2)

\* The requests of the calls that race or fail: one email, one phone number,
\* each present or absent.
RaceRequests == {req \in Requests : req.email \in {UNDEF, 1} /\ req.phoneNumber \in {UNDEF, 1}}

\* Two calls running at once, each finding no row for its request before
\* the other has inserted: both take the no-match branch and both insert a
\* PRIMARY, the second dt after the first.  Neither call ran alone, so the
\* record of the last call is cleared.
CreateRace(req1, req2, dt) ==
    /\ Truthy(req1.email) \/ Truthy(req1.phoneNumber)
    /\ Truthy(req2.email) \/ Truthy(req2.phoneNumber)
    /\ FindByEmailOrPhone(contacts, req1.email, req1.phoneNumber, "asc") = <<>>
    /\ FindByEmailOrPhone(contacts, req2.email, req2.phoneNumber, "asc") = <<>>
    /\ Len(contacts) + 2 <= MaxContacts
    /\ contacts' = Create(Create(contacts, req1.email, req1.phoneNumber,
                                 NULL, PRIMARY, now + 1),
                          req2.email, req2.phoneNumber, NULL, PRIMARY, now + 1 + dt)
    /\ now' = now + 1 + dt
    /\ request' = [email |-> UNDEF, phoneNumber |-> UNDEF]
    /\ outcome' = "none"
    /\ response' = NoResponse
    /\ ops' = <<>>
    /\ prev' = contacts'
    /\ fault' = 0
    /\ retried' = FALSE
    /\ calls' = calls

\* Calls that run alone, with any one store operation failing and rows of
\* equal created_at in either order, and pairs of racing no-match calls.
RaceNext ==
    \/ \E req \in RaceRequests, tb \in TieBreaks, failAt \in {0} \cup FailPoints :
           Identify(req, 1, tb, failAt)
    \/ \E req1, req2 \in RaceRequests, dt \in {0, 1} : CreateRace(req1, req2, dt)

RaceSpec == Init /\ [][RaceNext]_vars

\* ---------------------------------------------------------------------
\* Calls in flight together.  identifyContact awaits each store operation,
\* so between two of its operations another call may run; one step below
\* is one store operation of one call, with the code up to the next one.
\* The record of the last call that ran alone stays as it is.

Alone == UNCHANGED <<request, outcome, response, ops, prev, fault, retried>>

\* The call ends; "idle" after a response, "error" after an exception.
End(p, how) == calls' = [calls EXCEPT ![p] = [Resting EXCEPT !.pc = how]]

\* A request arrives; without email and phone it is rejected at once.
Arrive(p, req) ==
    /\ calls[p].pc \in {"idle", "error"}
    /\ IF ~Truthy(req.email) /\ ~Truthy(req.phoneNumber)
       THEN End(p, "error")
       ELSE calls' = [calls EXCEPT ![p] = [Resting EXCEPT !.pc = "find", !.req = req]]
    /\ UNCHANGED <<contacts, now>>
    /\ Alone

\* findByEmailOrPhone and the choice of the branch.
Lookup(p) ==
    /\ calls[p].pc = "find"
    /\ LET c == calls[p]
           existingContacts ==
               FindByEmailOrPhone(contacts, c.req.email, c.req.phoneNumber, "asc")
           primaryContacts == FilterPrecedence(existingContacts, PRIMARY)
           sorted == SortByCreatedAt(primaryContacts)
       IN calls' = [calls EXCEPT ![p] =
              IF Len(existingContacts) = 0
              THEN [c EXCEPT !.pc = "createPrimary"]
              ELSE IF Len(primaryContacts) > 1
              THEN [c EXCEPT !.pc = "demote",
                             !.anchor = sorted[1].id,
                             !.todo = [i \in 1..(Len(sorted) - 1) |-> sorted[i + 1].id],
                             !.covered = IsRequestCoveredByContacts(sorted, c.req)]
              ELSE IF primaryContacts /= <<>>
              THEN [c EXCEPT !.pc = "findLinked", !.anchor = primaryContacts[1].id]
              ELSE [c EXCEPT !.pc = "findAnchor",
                             !.anchor = existingContacts[1].linkedId]]
    /\ UNCHANGED <<contacts, now>>
    /\ Alone

\* A faulty variant of InsertPrimary: the insert is guarded by uniqueness of
\* email and phone, and a call whose values have appeared meanwhile inserts
\* nothing.
InsertPrimaryIfAbsent(p) ==
    /\ calls[p].pc = "createPrimary"
    /\ Len(contacts) < MaxContacts
    /\ IF FindByEmailOrPhone(contacts, calls[p].req.email,
                             calls[p].req.phoneNumber, "asc") = <<>>
       THEN /\ contacts' = Create(contacts, calls[p].req.email,
                                  calls[p].req.phoneNumber, NULL, PRIMARY, now + 1)
            /\ now' = now + 1
       ELSE UNCHANGED <<contacts, now>>
    /\ End(p, "idle")
    /\ Alone

\* createNewPrimaryContact: the insert of the no-match branch.
InsertPrimary(p) ==
    /\ calls[p].pc = "createPrimary"
    /\ Len(contacts) < MaxContacts
    /\ contacts' = Create(contacts, calls[p].req.email, calls[p].req.phoneNumber,
                          NULL, PRIMARY, now + 1)
    /\ now' = now + 1
    /\ End(p, "idle")
    /\ Alone

\* One turn of the demotion loop of mergePrimaryContacts.
Demote(p) ==
    /\ calls[p].pc = "demote"
    /\ contacts' = UpdateLinkPrecedence(contacts, Head(calls[p].todo),
                                        calls[p].anchor, now + 1)
    /\ now' = now + 1
    /\ calls' = [calls EXCEPT ![p] =
           [@ EXCEPT !.todo = Tail(@),
                     !.pc = IF Len(calls[p].todo) > 1 THEN "demote"
                            ELSE IF calls[p].covered THEN "respond"
                            ELSE "createSecondary"]]
    /\ Alone

\* The lookup of the anchor when every matched contact is SECONDARY.
FindAnchor(p) ==
    /\ calls[p].pc = "findAnchor"
    /\ calls' = [calls EXCEPT ![p] =
           [@ EXCEPT !.pc = "findLinked",
                     !.anchor = FindLinkedContacts(contacts, calls[p].anchor, "asc")[1].id]]
    /\ UNCHANGED <<contacts, now>>
    /\ Alone

\* findLinkedContacts on the anchor and needsNewSecondaryContact.
FindLinked(p) ==
    /\ calls[p].pc = "findLinked"
    /\ calls' = [calls EXCEPT ![p] =
           [@ EXCEPT !.pc =
               IF NeedsNewSecondaryContact(
                      FindLinkedContacts(contacts, calls[p].anchor, "asc"), calls[p].req)
               THEN "createSecondary" ELSE "respond"]]
    /\ UNCHANGED <<contacts, now>>
    /\ Alone

\* The insert of a SECONDARY, in the merge branch or the direct one.
InsertSecondary(p) ==
    /\ calls[p].pc = "createSecondary"
    /\ Len(contacts) < MaxContacts
    /\ contacts' = Create(contacts, calls[p].req.email, calls[p].req.phoneNumber,
                          calls[p].anchor, SECONDARY, now + 1)
    /\ now' = now + 1
    /\ calls' = [calls EXCEPT ![p] = [@ EXCEPT !.pc = "respond"]]
    /\ Alone

\* buildResponse: the last lookup; with no PRIMARY among the rows it throws.
Respond(p) ==
    /\ calls[p].pc = "respond"
    /\ End(p, IF ViewOf(FindLinkedContacts(contacts, calls[p].anchor, "asc")) = NoResponse
              THEN "error" ELSE "idle")
    /\ UNCHANGED <<contacts, now>>
    /\ Alone

\* The store rejects the operation the call is about to issue.
Reject(p) ==
    /\ calls[p].pc \notin {"idle", "error"}
    /\ End(p, "error")
    /\ UNCHANGED <<contacts, now>>
    /\ Alone

ConcNext ==
    \E p \in Callers :
        \/ \E req \in RaceRequests : Arrive(p, req)
        \/ Lookup(p)
        \/ InsertPrimary(p)
        \/ Demote(p)
        \/ FindAnchor(p)
        \/ FindLinked(p)
        \/ InsertSecondary(p)
        \/ Respond(p)
        \/ Reject(p)

ConcSpec == Init /\ [][ConcNext]_vars

\* --------------------------------------------- vocabulary of properties

\* An identify call has been made: request, outcome, response, ops and prev
\* describe it.
Called == outcome /= "none"

Supplied(v) == v /= UNDEF

\* The rows of a table, as a set.
Rows(cs) == Range(cs)

\* A row shares the request's email or the request's phone.
Matches(c, req) ==
    \/ Supplied(req.email) /\ c.email = req.email
    \/ Supplied(req.phoneNumber) /\ c.phoneNumber = req.phoneNumber

MatchedPrimaries(cs, req) ==
    {c \in Rows(cs) : c.linkPrecedence = PRIMARY /\ Matches(c, req)}

\* A row and the rows linked to it directly.
DirectCluster(cs, id) == {c \in Rows(cs) : c.id = id \/ c.linkedId = id}

\* The rows the last call inserted.
Inserted == {contacts[i] : i \in (Len(prev) + 1)..Len(contacts)}

\* The last call left every row it found as it was.
ExistingUntouched ==
    /\ Len(contacts) >= Len(prev)
    /\ SubSeq(contacts, 1, Len(prev)) = prev

NoDuplicates(seq) == \A i, j \in 1..Len(seq) : seq[i] = seq[j] => i = j

\* The row of a non-empty set with the smallest createdAt.
Oldest(S) == CHOOSE c \in S : \A o \in S : c.createdAt <= o.createdAt

\* The ids met when following linkedId from a row, the row's own id first.
RECURSIVE Ancestors(_, _, _)
Ancestors(cs, id, fuel) ==
    IF fuel = 0 \/ cs[id].linkedId = NULL THEN {id}
    ELSE {id} \cup Ancestors(cs, cs[id].linkedId, fuel - 1)

\* The identity cluster of a row: every row that reaches it by linkedId.
Cluster(cs, id) == {c \in Rows(cs) : id \in Ancestors(cs, c.id, Len(cs))}

\* The row without linkedId that a row's chain of linkedId ends at.
RootOf(cs, id) ==
    CHOOSE a \in Ancestors(cs, id, Len(cs)) : cs[a].linkedId = NULL

\* Every row whose chain ends where the given row's chain ends.
Component(cs, id) == {c \in Rows(cs) : RootOf(cs, c.id) = RootOf(cs, id)}

ExactPair(c, req) == c.email = req.email /\ c.phoneNumber = req.phoneNumber

\* I2: every SECONDARY row is linked to a row that is PRIMARY.
I2(cs) ==
    \A c \in Rows(cs) : c.linkPrecedence = SECONDARY =>
        /\ c.linkedId \in 1..Len(cs)
        /\ cs[c.linkedId].linkPrecedence = PRIMARY

\* ------------------------------------------------------------------ C1
\* C1: a request with neither email nor phone fails validation, issues no
\* store operation and leaves the table as it was.
C1_EmptyRequestRejected ==
    (Called /\ ~Supplied(request.email) /\ ~Supplied(request.phoneNumber))
        => /\ outcome = "validation_error"
           /\ ops = <<>>
           /\ contacts = prev

C1_Witness ==
    /\ Called
    /\ ~Supplied(request.email) /\ ~Supplied(request.phoneNumber)
    /\ outcome = "validation_error"
    /\ contacts /= <<>>

\* ------------------------------------------------------------------ C2
\* C2: when no row carries the request's email or phone, exactly one row is
\* inserted, PRIMARY with linkedId null and the request's values, no other
\* row changes, and the view names the new row as primary, has no
\* secondaries and lists exactly the supplied email and phone.
C2_NoMatchCreatesPrimary ==
    (/\ Called
     /\ Supplied(request.email) \/ Supplied(request.phoneNumber)
     /\ \A c \in Rows(prev) : ~Matches(c, request))
        => /\ Len(contacts) = Len(prev) + 1
           /\ ExistingUntouched
           /\ LET new == contacts[Len(contacts)]
              IN /\ new.linkPrecedence = PRIMARY
                 /\ new.linkedId = NULL
                 /\ new.email = (IF Supplied(request.email) THEN request.email ELSE NULL)
                 /\ new.phoneNumber = (IF Supplied(request.phoneNumber)
                                       THEN request.phoneNumber ELSE NULL)
                 /\ outcome = "ok"
                 /\ response.primaryContactId = new.id
                 /\ response.secondaryContactIds = <<>>
                 /\ response.emails = (IF Supplied(request.email)
                                       THEN <<request.email>> ELSE <<>>)
                 /\ response.phoneNumbers = (IF Supplied(request.phoneNumber)
                                             THEN <<request.phoneNumber>> ELSE <<>>)

C2_Witness ==
    /\ Called
    /\ Supplied(request.email) /\ Supplied(request.phoneNumber)
    /\ prev /= <<>>
    /\ \A c \in Rows(prev) : ~Matches(c, request)
    /\ Len(contacts) = Len(prev) + 1
    /\ outcome = "ok"

\* ------------------------------------------------------------------ C3
\* The request has both fields, matches exactly one PRIMARY row, on one of
\* the two fields, and no row of that primary's cluster carries both.
C3_Case(p) ==
    /\ Called
    /\ Supplied(request.email) /\ Supplied(request.phoneNumber)
    /\ MatchedPrimaries(prev, request) = {p}
    /\ ~(p.email = request.email /\ p.phoneNumber = request.phoneNumber)
    /\ \A c \in DirectCluster(prev, p.id) :
           ~(c.email = request.email /\ c.phoneNumber = request.phoneNumber)

\* C3: in that case exactly one row is inserted, SECONDARY under that
\* primary with the request's email and phone; the view is rooted at the
\* primary, starts with the primary's email and phone, lists the request's
\* values (a value new to the cluster comes last) and names the new row
\* among the secondaries.
C3_PartialMatchCreatesSecondary ==
    \A p \in Rows(prev) : C3_Case(p) =>
        /\ Len(contacts) = Len(prev) + 1
        /\ ExistingUntouched
        /\ LET new == contacts[Len(contacts)]
               known == DirectCluster(prev, p.id)
           IN /\ new.linkPrecedence = SECONDARY
              /\ new.linkedId = p.id
              /\ new.email = request.email
              /\ new.phoneNumber = request.phoneNumber
              /\ outcome = "ok"
              /\ response.primaryContactId = p.id
              /\ p.email /= NULL => response.emails[1] = p.email
              /\ p.phoneNumber /= NULL => response.phoneNumbers[1] = p.phoneNumber
              /\ request.email \in Range(response.emails)
              /\ request.phoneNumber \in Range(response.phoneNumbers)
              /\ (\A c \in known : c.email /= request.email)
                     => response.emails[Len(response.emails)] = request.email
              /\ (\A c \in known : c.phoneNumber /= request.phoneNumber)
                     => response.phoneNumbers[Len(response.phoneNumbers)]
                            = request.phoneNumber
              /\ new.id \in Range(response.secondaryContactIds)

\* A request whose email and phone are both known to the cluster, on
\* different rows, and that still gets its own SECONDARY.
C3_Witness ==
    \E p \in Rows(prev) :
        /\ C3_Case(p)
        /\ \E c \in DirectCluster(prev, p.id) : c.email = request.email
        /\ \E c \in DirectCluster(prev, p.id) : c.phoneNumber = request.phoneNumber
        /\ Len(contacts) = Len(prev) + 1
        /\ contacts[Len(contacts)].linkedId = p.id

\* ------------------------------------------------------------------ C4
\* C4: when the request matches two or more PRIMARY rows, the oldest of them
\* stays PRIMARY with linkedId null, each of the others is SECONDARY under
\* it, the view is rooted at it, and the view's emails and phones hold the
\* values of all of them, the oldest's first.
C4_MergeKeepsOldest ==
    (Called /\ Cardinality(MatchedPrimaries(prev, request)) >= 2) =>
        LET merged == MatchedPrimaries(prev, request)
            oldest == Oldest(merged)
        IN /\ contacts[oldest.id].linkPrecedence = PRIMARY
           /\ contacts[oldest.id].linkedId = NULL
           /\ \A m \in merged \ {oldest} :
                  /\ contacts[m.id].linkPrecedence = SECONDARY
                  /\ contacts[m.id].linkedId = oldest.id
           /\ outcome = "ok"
           /\ response.primaryContactId = oldest.id
           /\ \A m \in merged :
                  /\ m.email /= NULL => m.email \in Range(response.emails)
                  /\ m.phoneNumber /= NULL => m.phoneNumber \in Range(response.phoneNumbers)
           /\ oldest.email /= NULL => response.emails[1] = oldest.email
           /\ oldest.phoneNumber /= NULL => response.phoneNumbers[1] = oldest.phoneNumber

\* Two primaries, each with an email and a phone, merged by one request.
C4_Witness ==
    /\ Called
    /\ Cardinality(MatchedPrimaries(prev, request)) = 2
    /\ \A m \in MatchedPrimaries(prev, request) : m.email /= NULL /\ m.phoneNumber /= NULL
    /\ outcome = "ok"
    /\ Len(response.emails) = 2 /\ Len(response.phoneNumbers) = 2
    /\ contacts /= prev

\* ------------------------------------------------------------------ C10
\* C10: a returned view lists no email twice and no phone twice, and the
\* primary's email and phone, when it has them, come first.
C10_ViewDistinctPrimaryFirst ==
    (Called /\ outcome = "ok") =>
        /\ NoDuplicates(response.emails)
        /\ NoDuplicates(response.phoneNumbers)
        /\ LET primary == contacts[response.primaryContactId]
           IN /\ primary.email /= NULL => response.emails[1] = primary.email
              /\ primary.phoneNumber /= NULL
                     => response.phoneNumbers[1] = primary.phoneNumber

\* A view over a cluster in which a secondary repeats the primary's email.
C10_Witness ==
    /\ Called /\ outcome = "ok"
    /\ Len(response.secondaryContactIds) >= 2
    /\ \E i \in Range(response.secondaryContactIds) :
           /\ contacts[i].email /= NULL
           /\ contacts[i].email = contacts[response.primaryContactId].email
    /\ Len(response.phoneNumbers) >= 2

\* ------------------------------------------------------------------ C5
\* C5: a request with both fields whose exact pair is already carried by a
\* row of the cluster it resolves to (rows reaching the returned primary by
\* linkedId) inserts nothing, changes nothing, and returns the view the
\* previous call for that request returned.
C5_Idempotence ==
    [][(/\ Supplied(request'.email) /\ Supplied(request'.phoneNumber)
        /\ outcome' = "ok"
        /\ \E c \in Cluster(contacts, response'.primaryContactId) :
               ExactPair(c, request'))
           => /\ contacts' = contacts
              /\ (request = request' /\ outcome = "ok") => response' = response]_vars

\* ------------------------------------------------------------------ C6
\* C6 (I2): after any sequence of identify calls every SECONDARY row's
\* linkedId names a row that is PRIMARY.
C6_SecondaryLinksToPrimary == I2(contacts)

\* ------------------------------------------------------------------ C7
\* C7 (I1): following linkedId from any row ends at a row without linkedId,
\* that row is PRIMARY, and it is the only PRIMARY among the rows connected
\* to it by linkedId.
C7_OnePrimaryPerCluster ==
    \A c \in Rows(contacts) :
        LET chain == Ancestors(contacts, c.id, Len(contacts))
        IN /\ \E a \in chain : contacts[a].linkedId = NULL
           /\ contacts[RootOf(contacts, c.id)].linkPrecedence = PRIMARY
           /\ {d \in Component(contacts, c.id) : d.linkPrecedence = PRIMARY}
                  = {contacts[RootOf(contacts, c.id)]}

\* A merge has demoted a PRIMARY that had a SECONDARY of its own: the
\* cluster is three rows deep.
C7_Witness ==
    /\ Called
    /\ Cardinality(MatchedPrimaries(prev, request)) >= 2
    /\ \E c \in Rows(contacts) :
           Cardinality(Ancestors(contacts, c.id, Len(contacts))) = 3

\* ------------------------------------------------------------------ C8
\* C8 (I3): the emails and phones of a returned view are exactly the
\* non-null emails and phones of the rows that reach the returned primary
\* by linkedId.
C8_ViewIsClusterIdentity ==
    (Called /\ outcome = "ok") =>
        LET cluster == Cluster(contacts, response.primaryContactId)
        IN /\ Range(response.emails) = {c.email : c \in cluster} \ {NULL}
           /\ Range(response.phoneNumbers) = {c.phoneNumber : c \in cluster} \ {NULL}

\* ------------------------------------------------------------------ C9
\* C9: after a call returns a view, every row that carries the request's
\* email or the request's phone reaches the returned primary by linkedId.
C9_SharersInReturnedCluster ==
    (Called /\ outcome = "ok") =>
        \A c \in Rows(contacts) :
            Matches(c, request) => c \in Cluster(contacts, response.primaryContactId)

\* ------------------------------------------------------------------ C11
\* C11: when two PRIMARY rows matched by a request have the same createdAt,
\* the merge treats the one with the lower id as the older, whatever order
\* the database returned them in: the one with the higher id is demoted, and
\* the one with the lower id stays PRIMARY unless an older matched PRIMARY
\* exists.
C11_TieBrokenByLowerId ==
    (Called /\ fault = 0 /\ outcome /= "validation_error") =>
        \A a, b \in MatchedPrimaries(prev, request) :
            (a.createdAt = b.createdAt /\ a.id < b.id) =>
                /\ contacts[b.id].linkPrecedence = SECONDARY
                /\ (\A c \in MatchedPrimaries(prev, request) :
                        a.createdAt <= c.createdAt /\ (a.createdAt = c.createdAt => a.id <= c.id))
                    => contacts[a.id].linkPrecedence = PRIMARY

\* ------------------------------------------------------------------ C14
\* C14: with calls one after another and distinct createdAt, the PRIMARY
\* of a cluster is its oldest row: its createdAt is smaller than that of
\* every other row that reaches it by following linkedId.
C14_PrimaryIsOldest ==
    \A c \in Rows(contacts) :
        \A a \in Ancestors(contacts, c.id, Len(contacts)) \ {c.id} :
            contacts[a].linkPrecedence = PRIMARY =>
                contacts[a].createdAt < c.createdAt

\* A merge has happened: a row reaches its PRIMARY through a demoted row,
\* and all createdAt differ.
C14_Witness ==
    /\ \A c, d \in Rows(contacts) : c.createdAt = d.createdAt => c = d
    /\ \E c \in Rows(contacts) :
        /\ c.linkedId /= NULL
        /\ contacts[c.linkedId].linkedId /= NULL
        /\ contacts[contacts[c.linkedId].linkedId].linkPrecedence = PRIMARY

\* ------------------------------------------------------------------ C15
\* C15: a call deletes no row and changes the id, email, phone or createdAt
\* of no row; a row it changes is a matched PRIMARY demoted in the merge
\* branch (more than one matched PRIMARY): it becomes SECONDARY, linked to
\* the surviving PRIMARY, with a later updatedAt.  With no match or at most
\* one matched PRIMARY no existing row changes.
C15_OnlyDemotionChangesRows ==
    Called =>
        /\ Len(contacts) >= Len(prev)
        /\ \A i \in 1..Len(prev) :
            /\ contacts[i].id = prev[i].id
            /\ contacts[i].email = prev[i].email
            /\ contacts[i].phoneNumber = prev[i].phoneNumber
            /\ contacts[i].createdAt = prev[i].createdAt
            /\ contacts[i] /= prev[i] =>
                /\ Cardinality(MatchedPrimaries(prev, request)) > 1
                /\ prev[i] \in MatchedPrimaries(prev, request)
                /\ contacts[i].linkPrecedence = SECONDARY
                /\ contacts[i].linkedId = Oldest(MatchedPrimaries(prev, request)).id
                /\ contacts[i].updatedAt > prev[i].updatedAt

\* A call has demoted a row of a table that holds other rows too.
C15_Witness ==
    /\ Called
    /\ Len(prev) >= 3
    /\ \E i \in 1..Len(prev) : contacts[i] /= prev[i]

\* ------------------------------------------------------------------ C16
\* The number of operations of one kind in a log.
CountOps(log, op) == Cardinality({i \in 1..Len(log) : log[i] = op})

\* The rows of the table the last call found and changed.
Changed == {i \in 1..Len(prev) : contacts[i] /= prev[i]}

\* C16: when a store operation (lookup, insert or demotion) fails, the call
\* ends as a failed identify with no response; the failed operation is the
\* last one the call issued (no retry, no further operation), and the table
\* shows the effects of the operations before it and of none after.
C16_StoreFailureEndsCall ==
    fault /= 0 =>
        /\ outcome = "store_error"
        /\ response = NoResponse
        /\ Len(ops) = fault
        /\ Len(contacts) - Len(prev) = CountOps(SubSeq(ops, 1, fault - 1), "create")
        /\ Cardinality(Changed) = CountOps(SubSeq(ops, 1, fault - 1), "updateLinkPrecedence")

\* An insert failed after the call had already demoted a row.
C16_Witness ==
    /\ fault /= 0
    /\ ops[fault] = "create"
    /\ Changed /= {}

\* ------------------------------------------------------------------ C17
\* The rows of a table a request matches.
Matched(cs, req) == {c \in Rows(cs) : Matches(c, req)}

\* C17: when every row the request matches is SECONDARY, the call succeeds
\* with a view rooted at a row that is PRIMARY, and a row it inserts is
\* linked to that PRIMARY, also when the oldest matched row is linked to a
\* row that an earlier merge demoted.
C17_AnchorIsPrimary ==
    (/\ Called
     /\ Matched(prev, request) /= {}
     /\ \A c \in Matched(prev, request) : c.linkPrecedence = SECONDARY) =>
        /\ outcome = "ok"
        /\ response.primaryContactId \in 1..Len(contacts)
        /\ contacts[response.primaryContactId].linkPrecedence = PRIMARY
        /\ \A c \in Inserted : c.linkedId = response.primaryContactId

\* ------------------------------------------------------------------ C18
\* Each supplied field of the request, taken on its own, is the value some
\* row of the set has for that field.
CoveredPerField(S, req) ==
    /\ Supplied(req.email) => \E c \in S : c.email = req.email
    /\ Supplied(req.phoneNumber) => \E c \in S : c.phoneNumber = req.phoneNumber

\* C18: a call that matched more than one PRIMARY and met no store failure
\* inserts a row exactly when the request is not covered field by field by
\* the PRIMARY rows it matched; the row is one SECONDARY with the request's
\* email and phone, linked to the matched PRIMARY that survived.
C18_MergeCreatesIffNotCovered ==
    (/\ Called /\ fault = 0
     /\ Cardinality(MatchedPrimaries(prev, request)) > 1) =>
        /\ Inserted /= {} <=> ~CoveredPerField(MatchedPrimaries(prev, request), request)
        /\ Cardinality(Inserted) <= 1
        /\ \A c \in Inserted :
            /\ c.email = ToColumn(request.email)
            /\ c.phoneNumber = ToColumn(request.phoneNumber)
            /\ c.linkPrecedence = SECONDARY
            /\ \E p \in MatchedPrimaries(prev, request) :
                /\ c.linkedId = p.id
                /\ contacts[p.id].linkPrecedence = PRIMARY

\* A merge of two PRIMARY rows with the same email inserted a SECONDARY for
\* the request's phone, which neither of them had.
C18_Witness ==
    /\ Called /\ fault = 0
    /\ Cardinality(MatchedPrimaries(prev, request)) > 1
    /\ Inserted /= {}

\* A merge of two PRIMARY rows that cover the request between them, one by
\* the email and the other by the phone, inserted nothing.
C18_WitnessCovered ==
    /\ Called /\ fault = 0
    /\ Cardinality(MatchedPrimaries(prev, request)) > 1
    /\ Supplied(request.email) /\ Supplied(request.phoneNumber)
    /\ ~\E p \in MatchedPrimaries(prev, request) : ExactPair(p, request)
    /\ Inserted = {}

\* ------------------------------------------------------------------ C19
\* The last call matched rows of which at most one is PRIMARY.
DirectCase ==
    /\ Called /\ fault = 0
    /\ Matched(prev, request) /= {}
    /\ Cardinality(MatchedPrimaries(prev, request)) <= 1

\* The id of the anchor of a direct call: the matched PRIMARY, else the row
\* the oldest matched row is linked to.
AnchorId ==
    IF MatchedPrimaries(prev, request) /= {}
    THEN (CHOOSE p \in MatchedPrimaries(prev, request) : TRUE).id
    ELSE Oldest(Matched(prev, request)).linkedId

\* The request brings something the rows of the set do not hold: the pair
\* of email and phone in no single row when both are supplied, else the one
\* supplied value in no row.
NewToCluster(S, req) ==
    IF Supplied(req.email) /\ Supplied(req.phoneNumber)
    THEN ~\E c \in S : c.email = req.email /\ c.phoneNumber = req.phoneNumber
    ELSE IF Supplied(req.email)
    THEN ~\E c \in S : c.email = req.email
    ELSE ~\E c \in S : c.phoneNumber = req.phoneNumber

\* C19: in the direct case a call inserts a row exactly when the request is
\* new to the anchor and the rows linked to the anchor directly; the row is
\* one SECONDARY linked to the anchor.
C19_DirectCreatesIffNew ==
    DirectCase =>
        /\ Inserted /= {} <=> NewToCluster(DirectCluster(prev, AnchorId), request)
        /\ Cardinality(Inserted) <= 1
        /\ \A c \in Inserted :
            /\ c.linkPrecedence = SECONDARY
            /\ c.linkedId = AnchorId
            /\ c.email = ToColumn(request.email)
            /\ c.phoneNumber = ToColumn(request.phoneNumber)

\* A direct call inserted a row for a pair whose email and phone the anchor's
\* rows hold, only not together.
C19_Witness ==
    /\ DirectCase
    /\ Supplied(request.email) /\ Supplied(request.phoneNumber)
    /\ \E c \in DirectCluster(prev, AnchorId) : c.email = request.email
    /\ \E c \in DirectCluster(prev, AnchorId) : c.phoneNumber = request.phoneNumber
    /\ Inserted /= {}

\* ------------------------------------------------------------------ C20
\* I1: following linkedId from any row ends at a row without linkedId, and
\* exactly one row on the way is PRIMARY.
I1(cs) ==
    \A c \in Rows(cs) :
        /\ \E a \in Ancestors(cs, c.id, Len(cs)) : cs[a].linkedId = NULL
        /\ Cardinality({a \in Ancestors(cs, c.id, Len(cs)) :
                            cs[a].linkPrecedence = PRIMARY}) = 1

\* The last call matched three or more PRIMARY rows and a demotion failed
\* after at least one other had been applied.
PartialMerge ==
    /\ fault /= 0
    /\ Cardinality(MatchedPrimaries(prev, request)) >= 3
    /\ ops[fault] = "updateLinkPrecedence"
    /\ Changed /= {}

\* C20: a merge over three or more matched PRIMARY rows that fails part way
\* is not undone: the demotions before the failure are in the table, as many
\* as the call issued, each linking a matched PRIMARY to the survivor; the
\* other matched PRIMARY rows are as they were, PRIMARY with no linkedId; no
\* row is inserted; and I1 holds.
C20_PartialMergeStays ==
    PartialMerge =>
        /\ Cardinality(Changed) = CountOps(SubSeq(ops, 1, fault - 1), "updateLinkPrecedence")
        /\ \E s \in MatchedPrimaries(prev, request) :
            /\ \A p \in MatchedPrimaries(prev, request) : s.createdAt <= p.createdAt
            /\ contacts[s.id] = s
            /\ \A i \in Changed :
                /\ prev[i] \in MatchedPrimaries(prev, request)
                /\ contacts[i].linkPrecedence = SECONDARY
                /\ contacts[i].linkedId = s.id
        /\ \A p \in MatchedPrimaries(prev, request) :
            p.id \notin Changed =>
                /\ contacts[p.id] = p
                /\ contacts[p.id].linkPrecedence = PRIMARY
                /\ contacts[p.id].linkedId = NULL
        /\ Cardinality(MatchedPrimaries(prev, request)) > Cardinality(Changed) + 1
        /\ Len(contacts) = Len(prev)
        /\ I1(contacts)

\* Of three matched PRIMARY rows one is demoted, the demotion of another
\* failed, and the table had satisfied I1 before the call.
C20_Witness ==
    /\ PartialMerge
    /\ I1(prev)
    /\ Cardinality(MatchedPrimaries(prev, request)) > Cardinality(Changed) + 1

\* ------------------------------------------------------------------ C12
\* C12: nothing stands between a call that found no match and its insert:
\* when it goes on and ends with a response, the table has gained a PRIMARY
\* with the request's email and phone, whatever other calls have inserted
\* since the lookup.  Two calls with the same unseen values that both look
\* up before either inserts therefore leave two such PRIMARY rows.
C12_NoMatchInsertsUnguarded ==
    [][\A p \in Callers :
          (calls[p].pc = "createPrimary" /\ calls'[p].pc = "idle") =>
              /\ Len(contacts') = Len(contacts) + 1
              /\ SubSeq(contacts', 1, Len(contacts)) = contacts
              /\ contacts'[Len(contacts')].linkPrecedence = PRIMARY
              /\ contacts'[Len(contacts')].linkedId = NULL
              /\ contacts'[Len(contacts')].email = ToColumn(calls[p].req.email)
              /\ contacts'[Len(contacts')].phoneNumber = ToColumn(calls[p].req.phoneNumber)
      ]_vars

\* Both calls have ended with a response and the table holds two PRIMARY
\* rows with the same email and the same phone.
C12_Witness ==
    /\ \A p \in Callers : calls[p].pc = "idle"
    /\ \E c, d \in Rows(contacts) :
        /\ c.id < d.id
        /\ c.linkPrecedence = PRIMARY /\ d.linkPrecedence = PRIMARY
        /\ c.email = d.email /\ c.phoneNumber = d.phoneNumber

\* ------------------------------------------------------------------ C13
\* C13: in every state, whatever calls ran and however their store
\* operations interleaved, a row has no linkedId exactly when it is PRIMARY.
C13_LinkedIdNullIffPrimary ==
    \A c \in Rows(contacts) : c.linkedId = NULL <=> c.linkPrecedence = PRIMARY

\* A row has been demoted by a call that ran while another call was in
\* flight, and a row inserted as SECONDARY exists too.
C13_Witness ==
    /\ \E c \in Rows(contacts) :
        c.linkPrecedence = SECONDARY /\ c.updatedAt > c.createdAt
    /\ \E c \in Rows(contacts) :
        c.linkPrecedence = SECONDARY /\ c.updatedAt = c.createdAt
    /\ \E p \in Callers : calls[p].pc \notin {"idle", "error"}

\* ------------------------------------------------------------------ C21
\* C21: when a merge has failed part way and the same request is issued
\* again, alone and with no store failure, the merge is completed: of the
\* PRIMARY rows the failed call had matched, one that no other is older
\* than is PRIMARY and every other is SECONDARY and linked to it.
C21_RetryCompletesMerge ==
    [][(/\ PartialMerge
        /\ outcome' /= "none" /\ prev' = contacts
        /\ request' = request /\ fault' = 0) =>
           LET originals == MatchedPrimaries(prev, request)
           IN \E oldest \in originals :
               /\ \A c \in originals : oldest.createdAt <= c.createdAt
               /\ contacts'[oldest.id].linkPrecedence = PRIMARY
               /\ \A c \in originals \ {oldest} :
                   /\ contacts'[c.id].linkPrecedence = SECONDARY
                   /\ contacts'[c.id].linkedId = oldest.id
      ]_vars

\* The retry has run and has demoted what the failed call had left: the
\* request now matches one PRIMARY where it matched more before the retry.
C21_Witness ==
    /\ retried /\ fault = 0 /\ outcome = "ok"
    /\ Changed /= {}
    /\ Cardinality(MatchedPrimaries(contacts, request)) = 1

\* ------------------------------------------------------------------ C22
\* C22: in a returned view, secondaryContactIds lists, once each and by
\* ascending createdAt, the ids of exactly the rows that are SECONDARY and
\* linked to the view's primaryContactId; the primary's own id and the ids
\* of rows linked elsewhere are not in it.
C22_SecondaryIdsAreDirectChildren ==
    (Called /\ outcome = "ok") =>
        LET ids == response.secondaryContactIds
            P == response.primaryContactId
        IN /\ Range(ids) = {c.id : c \in {d \in Rows(contacts) :
                                 d.linkPrecedence = SECONDARY /\ d.linkedId = P}}
           /\ NoDuplicates(ids)
           /\ \A i, j \in 1..Len(ids) :
                  i < j => contacts[ids[i]].createdAt < contacts[ids[j]].createdAt
           /\ P \notin Range(ids)
           /\ \A i \in 1..Len(ids) : contacts[ids[i]].linkedId = P

\* A view with two secondaries was returned while a row linked to one of
\* them exists and is rightly left out.
C22_Witness ==
    /\ Called /\ outcome = "ok"
    /\ Len(response.secondaryContactIds) >= 2
    /\ \E c \in Rows(contacts) :
        /\ c.linkedId \in Range(response.secondaryContactIds)
        /\ c.id \notin Range(response.secondaryContactIds)

\* ------------------------------------------------------------------ C23
\* C23: a call that repeats the request of the call just before it, which
\* had returned a view, inserts nothing, demotes nothing and returns that
\* same view; so also when the first call merged two PRIMARY rows and found
\* the request covered by them.
C23_RepeatChangesNothing ==
    [][(outcome = "ok" /\ request' = request) =>
           /\ contacts' = contacts
           /\ outcome' = "ok"
           /\ response' = response]_vars

\* ------------------------------------------------------------------ C24
\* C24: with calls one after another from the empty table, no two rows have
\* both the same email and the same phone.
C24_NoTwoRowsSamePair ==
    \A c, d \in Rows(contacts) :
        (c.email = d.email /\ c.phoneNumber = d.phoneNumber) => c = d

\* ------------------------------------------------------------------ C25
\* C25: a view returned by a call holds the request's email among its emails
\* when an email was supplied, and the request's phone among its
\* phoneNumbers when a phone was supplied, whichever branch the call took.
C25_ViewHoldsRequestValues ==
    (Called /\ outcome = "ok") =>
        /\ Supplied(request.email) => request.email \in Range(response.emails)
        /\ Supplied(request.phoneNumber) =>
               request.phoneNumber \in Range(response.phoneNumbers)

\* A view was returned for a request of which neither the email nor the
\* phone is the primary's own.
C25_Witness ==
    /\ Called /\ outcome = "ok"
    /\ Supplied(request.email) /\ Supplied(request.phoneNumber)
    /\ contacts[response.primaryContactId].email /= request.email
    /\ contacts[response.primaryContactId].phoneNumber /= request.phoneNumber

\* A view was returned by a call that merged two PRIMARY rows.
C25_WitnessMerge ==
    /\ Called /\ outcome = "ok"
    /\ Changed /= {}

\* ------------------------------------------------------------------ C26
\* C26: a call, whether it returns a view or fails, removes no row and
\* inserts at most one.  With no row matched, a call that meets no store
\* failure inserts exactly one row, and a row inserted with no row matched
\* is PRIMARY; with a row matched, a row inserted is SECONDARY.
C26_AtMostOneInsert ==
    Called =>
        /\ Len(contacts) >= Len(prev)
        /\ Cardinality(Inserted) <= 1
        /\ Matched(prev, request) = {} =>
            /\ \A c \in Inserted : c.linkPrecedence = PRIMARY
            /\ (fault = 0 /\ outcome /= "validation_error") => Cardinality(Inserted) = 1
        /\ Matched(prev, request) /= {} =>
            \A c \in Inserted : c.linkPrecedence = SECONDARY

\* A call inserted a SECONDARY and then failed.
C26_Witness ==
    /\ Called
    /\ outcome \in {"store_error", "type_error"}
    /\ Inserted /= {}

\* ------------------------------------------------------------------ C27
\* C27: with calls one after another from the empty table, no two PRIMARY
\* rows have the same email, unless null, or the same phone, unless null.
C27_PrimariesShareNoValue ==
    \A c, d \in Rows(contacts) :
        (c /= d /\ c.linkPrecedence = PRIMARY /\ d.linkPrecedence = PRIMARY) =>
            /\ c.email /= NULL => c.email /= d.email
            /\ c.phoneNumber /= NULL => c.phoneNumber /= d.phoneNumber

\* Two PRIMARY rows exist side by side, one of them with an email, a phone
\* and a SECONDARY that brought it a second phone or email.
C27_Witness ==
    \E c, d, s \in Rows(contacts) :
        /\ c /= d /\ c.linkPrecedence = PRIMARY /\ d.linkPrecedence = PRIMARY
        /\ c.email /= NULL /\ c.phoneNumber /= NULL
        /\ s.linkPrecedence = SECONDARY /\ s.linkedId = c.id

\* ------------------------------------------------------------------ C28
\* C28: with calls one after another from the empty table, a request
\* matches at most two PRIMARY rows; when it matches two, the call issues
\* one demotion and changes one row, the two rows cover the request field
\* by field, and no row is inserted.
C28_MergeIsOneDemotion ==
    Called =>
        /\ Cardinality(MatchedPrimaries(prev, request)) <= 2
        /\ Cardinality(MatchedPrimaries(prev, request)) = 2 =>
            /\ CountOps(ops, "updateLinkPrecedence") = 1
            /\ Cardinality(Changed) = 1
            /\ CoveredPerField(MatchedPrimaries(prev, request), request)
            /\ CountOps(ops, "create") = 0
            /\ Inserted = {}

\* A call merged two PRIMARY rows of a table with a third row.
C28_Witness ==
    /\ Called /\ outcome = "ok"
    /\ Cardinality(MatchedPrimaries(prev, request)) = 2
    /\ Len(prev) >= 3

\* ------------------------------------------------------------------ C29
\* C29: with calls one after another, a request with only an email or only
\* a phone that matches a row inserts nothing; a request with one field
\* inserts a row only when it matches none.
C29_SingleFieldNeverLinks ==
    (/\ Called
     /\ Supplied(request.email) /= Supplied(request.phoneNumber)
     /\ Matched(prev, request) /= {}) =>
        /\ Inserted = {}
        /\ CountOps(ops, "create") = 0

\* A request with one field matched only SECONDARY rows, and a view came
\* back with nothing inserted.
C29_Witness ==
    /\ Called /\ outcome = "ok"
    /\ Supplied(request.email) /= Supplied(request.phoneNumber)
    /\ Matched(prev, request) /= {}
    /\ \A c \in Matched(prev, request) : c.linkPrecedence = SECONDARY
    /\ Inserted = {}

\* ------------------------------------------------------------------ C30
\* C30: when a call returns a view, the row its primaryContactId names is
\* PRIMARY and has no linkedId in the table the view was built from; no
\* view names a SECONDARY row as its primary.
C30_ViewNamesAPrimary ==
    (Called /\ outcome = "ok") =>
        /\ response.primaryContactId \in 1..Len(contacts)
        /\ contacts[response.primaryContactId].linkPrecedence = PRIMARY
        /\ contacts[response.primaryContactId].linkedId = NULL

\* A view was returned for a request that matched only SECONDARY rows, in a
\* table where a demoted row exists.
C30_Witness ==
    /\ Called /\ outcome = "ok"
    /\ Matched(prev, request) /= {}
    /\ \A c \in Matched(prev, request) : c.linkPrecedence = SECONDARY
    /\ \E c \in Rows(prev) : c.linkPrecedence = SECONDARY /\ c.updatedAt > c.createdAt

\* ------------------------------------------------------------------ C31
\* C31: however the store operations of concurrent calls interleave, as long
\* as no two rows have the same createdAt, a row's linkedId names a row
\* that is strictly older; so no chain of linkedId comes back to a row, and
\* every chain ends at a row without linkedId, which is PRIMARY.
C31_LinksPointToOlder ==
    (\A c, d \in Rows(contacts) : c.createdAt = d.createdAt => c = d) =>
        \A c \in Rows(contacts) :
            /\ c.linkedId /= NULL =>
                /\ c.linkedId \in 1..Len(contacts)
                /\ contacts[c.linkedId].createdAt < c.createdAt
            /\ \A a \in Ancestors(contacts, c.id, Len(contacts)) \ {c.id} :
                   c.id \notin Ancestors(contacts, a, Len(contacts))
            /\ \E a \in Ancestors(contacts, c.id, Len(contacts)) :
                /\ contacts[a].linkedId = NULL
                /\ contacts[a].linkPrecedence = PRIMARY

\* Two merges race: a call is about to demote a row that another call, of
\* which the response is still to come, has demoted already.
C31_Witness ==
    /\ \A c, d \in Rows(contacts) : c.createdAt = d.createdAt => c = d
    /\ \E p, q \in Callers :
        /\ p /= q
        /\ calls[p].pc = "demote"
        /\ contacts[Head(calls[p].todo)].linkPrecedence = SECONDARY
        /\ contacts[Head(calls[p].todo)].updatedAt > contacts[Head(calls[p].todo)].createdAt
        /\ calls[q].pc \in {"demote", "createSecondary", "respond"}

\* ------------------------------------------------------------------ C32
\* The emails and the phones as buildResponse has them in its two arrays
\* before the guards of the swaps: the primary's own value, then the values
\* of the secondaries in their order.
EmailsCollected(linkedContacts) ==
    LET primary == FilterPrecedence(linkedContacts, PRIMARY)[1]
    IN CollectEmails(IF Truthy(primary.email) THEN <<primary.email>> ELSE <<>>,
                     FilterPrecedence(linkedContacts, SECONDARY))

PhonesCollected(linkedContacts) ==
    LET primary == FilterPrecedence(linkedContacts, PRIMARY)[1]
    IN CollectPhones(IF Truthy(primary.phoneNumber) THEN <<primary.phoneNumber>> ELSE <<>>,
                     FilterPrecedence(linkedContacts, SECONDARY))

\* C32: whenever buildResponse finds a PRIMARY, for whichever id of the
\* table it is called, the guards of both swaps are false: a primary's
\* email that is not null is first among the emails collected, and so is
\* its phone among the phones; the arrays returned are the arrays collected.
C32_SwapsNeverTaken ==
    \A id \in 1..Len(contacts) :
        LET linkedContacts == FindLinkedContacts(contacts, id, "asc")
            primaries == FilterPrecedence(linkedContacts, PRIMARY)
        IN primaries /= <<>> =>
            /\ ~(Truthy(primaries[1].email)
                 /\ EmailsCollected(linkedContacts)[1] /= primaries[1].email)
            /\ ~(Truthy(primaries[1].phoneNumber)
                 /\ PhonesCollected(linkedContacts)[1] /= primaries[1].phoneNumber)
            /\ ViewOf(linkedContacts).emails = EmailsCollected(linkedContacts)
            /\ ViewOf(linkedContacts).phoneNumbers = PhonesCollected(linkedContacts)

\* A view with two emails and two phones was returned, the primary's own
\* first in both.
C32_Witness ==
    /\ Called /\ outcome = "ok"
    /\ Len(response.emails) >= 2 /\ Len(response.phoneNumbers) >= 2
    /\ response.emails[1] = contacts[response.primaryContactId].email
    /\ response.phoneNumbers[1] = contacts[response.primaryContactId].phoneNumber

====
